---- MODULE Spec2Model ----
(***************************************************************************)
(* Model of sol.opt.composer.compose_apps (src/src/sol/opt/composer.pyx):  *)
(* the composition of several applications into one optimization.  The    *)
(* model builder (OptimizationGurobi) is an external collaborator: the     *)
(* model records every call made on it, in order, in the variable calls.   *)
(***************************************************************************)
EXTENDS Integers, Sequences, FiniteSets, TLC

(* ------------------------------------------------------------------ *)
(* Bounds and input domains                                           *)
(* ------------------------------------------------------------------ *)

\* longest application list explored
MaxApps == 2

\* Python's None
None == <<>>

\* sol.utils.const.NODES / LINKS, the two recognized resource owners
NODES == "nodes"
LINKS == "links"

\* PPTC(): a fresh, empty paths-per-traffic-class object
EmptyPPTC == [t \in {} |-> {}]

\* an empty dict
EmptyDict == [k \in {} |-> ""]

\* The applications a caller may pass.  Each exposes .name, .pptc,
\* .resource_cost (resource -> <<cost function, owner mode>>),
\* .obj = <<kind, positional args, keyword options>>, .obj_tc and .volume().
AppA ==
    [name |-> "A",
     pptc |-> ("tc1" :> {"p1", "p2"}),
     resource_cost |-> ("bw" :> <<"costA_bw", NODES>>),
     obj |-> <<"minlatency", <<"argA">>, EmptyDict>>,
     obj_tc |-> "tcsA",
     volume |-> 10]

AppB ==
    [name |-> "B",
     pptc |-> ("tc1" :> {"p2", "p3"}) @@ ("tc2" :> {"p1"}),
     resource_cost |-> ("bw" :> <<"costB_bw", NODES>>) @@ ("cpu" :> <<"costB_cpu", LINKS>>),
     obj |-> <<"maxflow", <<>>, ("varname" :> "stale") @@ ("tcs" :> "tcsStale")>>,
     obj_tc |-> "tcsB",
     volume |-> 30]

AppC ==
    [name |-> "C",
     pptc |-> ("tc2" :> {"p3"}),
     resource_cost |-> ("bw" :> <<"costC_bw", LINKS>>) @@ ("cpu" :> <<"costC_cpu", LINKS>>),
     obj |-> <<"minlinkload", <<"argC">>, ("resource" :> "bw")>>,
     obj_tc |-> "tcsC",
     volume |-> 0]

AppD ==
    [name |-> "D",
     pptc |-> EmptyPPTC,
     resource_cost |-> ("cpu" :> <<"costD_cpu", "paths">>),
     obj |-> <<"maxflow", <<>>, ("tcs" :> "tcsStale")>>,
     obj_tc |-> "tcsD",
     volume |-> 10]

AppPool == {AppA, AppB, AppC, AppD}

\* apps: every list of at most MaxApps applications (the same one may repeat)
AppLists == UNION {[1..n -> AppPool] : n \in 0..MaxApps}

\* an element that advertises no resource
NoResources == [r \in {} |-> 0]

\* topo: nodes(), links() and get_resources(element)
Topo1 ==
    [nodes |-> {"n1", "n2"},
     links |-> {"n1-n2"},
     resources |-> ("n1" :> (("bw" :> 10) @@ ("cpu" :> 4)))
                @@ ("n2" :> ("cpu" :> 2))
                @@ ("n1-n2" :> ("bw" :> 5))]

Topo2 ==
    [nodes |-> {"n1", "n2", "n3"},
     links |-> {"n1-n2", "n2-n3"},
     resources |-> ("n1" :> NoResources)
                @@ ("n2" :> ("bw" :> 7))
                @@ ("n3" :> ("bw" :> 0))
                @@ ("n1-n2" :> (("bw" :> 5) @@ ("cpu" :> 1)))
                @@ ("n2-n3" :> ("cpu" :> 3))]

Topologies == {Topo1, Topo2}

\* network_config: None, or an object whose get_caps() is None or a caps
\* object with resources() and caps(r)
NetConfigs ==
    {None,
     [caps |-> None],
     [caps |-> [table |-> NoResources]],
     [caps |-> [table |-> ("bw" :> 8) @@ ("mem" :> 1)]]}

EpochModes == {"AVG"}
FairnessModes == {"WEIGHTED"}

\* explicit weights are exact rationals <<numerator, denominator>>
ScalarWeights == {<<0, 1>>, <<1, 2>>, <<3, 2>>}
VectorWeights == {<<1, 1>>, <<3, 2>>}

\* weights argument: None, one number, or one weight per application
WeightInputs(n) ==
    {[kind |-> "None", vals |-> <<>>]}
      \cup {[kind |-> "scalar", vals |-> <<w>>] : w \in ScalarWeights}
      \cup {[kind |-> "vector", vals |-> v] : v \in [1..n -> VectorWeights]}

(* ------------------------------------------------------------------ *)
(* State                                                              *)
(* ------------------------------------------------------------------ *)

VARIABLES
    apps,            \* parameter apps (the caller's application objects)
    topo,            \* parameter topo
    network_config,  \* parameter network_config
    epoch_mode,      \* parameter epoch_mode
    fairness,        \* parameter fairness
    weights,         \* parameter weights, reassigned at line 77
    assertions,      \* whether assert statements are executed
    pc,              \* position in compose_apps
    all_pptc,        \* local all_pptc
    todo,            \* elements the current set iteration has not yielded yet
    i,               \* index of the next application in the current loop
    objs,            \* local objs
    calls,           \* calls made on the model builder, in order
    err              \* the exception that ended the call, if any

vars == <<apps, topo, network_config, epoch_mode, fairness, weights, assertions,
          pc, all_pptc, todo, i, objs, calls, err>>

inputs == <<topo, network_config, epoch_mode, fairness, assertions>>

NoError == [type |-> "", args |-> <<>>, line |-> 0]

(* ------------------------------------------------------------------ *)
(* Pure helpers                                                       *)
(* ------------------------------------------------------------------ *)

\* PPTC.update(other): per traffic class, the union of both path sets
PPTCUpdate(self, other) ==
    [t \in (DOMAIN self) \cup (DOMAIN other) |->
        (IF t \in DOMAIN self THEN self[t] ELSE {})
          \cup (IF t \in DOMAIN other THEN other[t] ELSE {})]

\* variant: each application's path set replaces the merged one
RECURSIVE MergePaths_assign(_, _, _)
MergePaths_assign(acc, as, k) ==
    IF k > Len(as) THEN acc
    ELSE MergePaths_assign(as[k].pptc, as, k + 1)

\* for app in apps: all_pptc.update(app.pptc), from application k on
RECURSIVE MergePaths(_, _, _)
MergePaths(acc, as, k) ==
    IF k > Len(as) THEN acc
    ELSE MergePaths(PPTCUpdate(acc, as[k].pptc), as, k + 1)

\* {node: topo.get_resources(node) for node in topo.nodes()}
node_caps(t) == [n \in t.nodes |-> t.resources[n]]

\* {link: topo.get_resources(link) for link in topo.links()}
link_caps(t) == [l \in t.links |-> t.resources[l]]

\* rset after the loop of lines 48-49
rset(as) == UNION {DOMAIN as[k].resource_cost : k \in 1..Len(as)}

\* [app.resource_cost[r] for app in apps if r in app.resource_cost]
RECURSIVE ResourcePairs(_, _)
ResourcePairs(as, r) ==
    IF as = <<>> THEN <<>>
    ELSE (IF r \in DOMAIN Head(as).resource_cost
             THEN <<Head(as).resource_cost[r]>> ELSE <<>>)
         \o ResourcePairs(Tail(as), r)

\* variant: the cost functions in reverse application order
cost_funcs_reversed(as, r) ==
    LET pairs == ResourcePairs(as, r) IN [k \in 1..Len(pairs) |-> pairs[Len(pairs) + 1 - k][1]]

\* cost_funcs, modes = zip(*pairs)
cost_funcs(as, r) ==
    LET pairs == ResourcePairs(as, r) IN [k \in 1..Len(pairs) |-> pairs[k][1]]

modes(as, r) ==
    LET pairs == ResourcePairs(as, r) IN [k \in 1..Len(pairs) |-> pairs[k][2]]

\* set(modes)
ModeSet(as, r) == {modes(as, r)[k] : k \in 1..Len(modes(as, r))}

\* variant: the two owner branches exchanged
Capacities_swapped(t, r, mode) ==
    IF mode = LINKS
    THEN [n \in {e \in DOMAIN node_caps(t) : r \in DOMAIN node_caps(t)[e]} |-> node_caps(t)[n][r]]
    ELSE [l \in {e \in DOMAIN link_caps(t) : r \in DOMAIN link_caps(t)[e]} |-> link_caps(t)[l][r]]

\* capacities of lines 54-57, for a recognized mode
Capacities(t, r, mode) ==
    IF mode = NODES
    THEN [n \in {e \in DOMAIN node_caps(t) : r \in DOMAIN node_caps(t)[e]} |-> node_caps(t)[n][r]]
    ELSE [l \in {e \in DOMAIN link_caps(t) : r \in DOMAIN link_caps(t)[e]} |-> link_caps(t)[l][r]]

\* variant: the message carries the resource name in place of the mode
UnknownModeError_resource(r, mode) ==
    [type |-> "InvalidConfigException", args |-> <<"resource owner", r>>, line |-> 59]

\* The exception of line 59.  ERR_UNKNOWN_MODE is a format string with two
\* places; args are the two values substituted into it.
UnknownModeError(r, mode) ==
    [type |-> "InvalidConfigException", args |-> <<"resource owner", mode>>, line |-> 59]

\* variant: only resources some application references are capped
CapResources_referenced(nc) == (DOMAIN nc.caps.table) \cap rset(apps)

\* caps.resources() of a network configuration that has caps
CapResources(nc) == DOMAIN nc.caps.table

\* caps.caps(r)
CapValues(nc, r) == nc.caps.table[r]

\* volumes.sum()
RECURSIVE VolumeSum(_)
VolumeSum(as) == IF as = <<>> THEN 0 ELSE Head(as).volume + VolumeSum(Tail(as))

\* numpy true division v / total as an exact rational; 0/0 is nan, written <<0, 0>>
Divide(v, total) == <<v, total>>

\* variant: the share itself, without the complement
OneMinus_dropped(q) == q

\* 1 - q for a rational q (1 - nan = nan)
OneMinus(q) == <<q[2] - q[1], q[2]>>

\* weights = 1 - volumes/volumes.sum(), one entry per application
DerivedWeights(as) ==
    [kind |-> "ndarray",
     vals |-> [k \in 1..Len(as) |-> OneMinus(Divide(as[k].volume, VolumeSum(as)))]]

\* 0 <= q <= 1 for a rational with positive denominator
InUnitRange(q) == 0 <= q[1] /\ q[1] <= q[2]

\* The sequence types a caller can pass one-weight-per-application in, and
\* the interpreters the module runs under.
Containers == {"list", "ndarray"}
PythonVersions == {2, 3}

\* Value of the chained comparison 0 <= weights <= 1 (line 79), or the
\* exception it raises.  Python 2 orders any number below any list, Python 3
\* refuses to order them; numpy compares element-wise and the chaining then
\* asks for the truth value of an array.
ChainedCompare(w, container, py) ==
    IF w.kind = "scalar" THEN (IF InUnitRange(w.vals[1]) THEN "True" ELSE "False")
    ELSE IF container = "list" THEN (IF py = 2 THEN "False" ELSE "TypeError")
    ELSE IF Len(w.vals) = 0 THEN "False"
    ELSE IF Len(w.vals) = 1 THEN (IF InUnitRange(w.vals[1]) THEN "True" ELSE "False")
    ELSE "ValueError"

CompareOutcomes(w) ==
    {ChainedCompare(w, c, py) : c \in Containers, py \in PythonVersions}

\* dict.copy()
DictCopy(d) == [k \in DOMAIN d |-> d[k]]

\* d.update(e): e's entries override d's
DictUpdate(d, e) ==
    [k \in (DOMAIN d) \cup (DOMAIN e) |-> IF k \in DOMAIN e THEN e[k] ELSE d[k]]

\* kwargs of lines 84-85
ObjectiveKwargs(app) ==
    DictUpdate(DictCopy(app.obj[3]), ("varname" :> app.name) @@ ("tcs" :> app.obj_tc))

\* variant: kwargs aliases app.obj[2], so the update reaches the application
AppsAfterKwargs_aliased(as, k) ==
    [as EXCEPT ![k].obj = <<@[1], @[2], ObjectiveKwargs(as[k])>>]

\* The caller's applications after lines 84-85 ran for application k: kwargs
\* is a copy, so the update does not reach app.obj[2].
AppsAfterKwargs(as, k) == as

\* values add_single_objective may return
EpochObjs == {"expr1", "expr2"}

(* ------------------------------------------------------------------ *)
(* compose_apps                                                       *)
(* ------------------------------------------------------------------ *)

Init ==
    /\ apps \in AppLists
    /\ topo \in Topologies
    /\ network_config \in NetConfigs
    /\ epoch_mode \in EpochModes
    /\ fairness \in FairnessModes
    /\ weights \in WeightInputs(Len(apps))
    /\ assertions \in BOOLEAN
    /\ pc = "start"
    /\ all_pptc = EmptyPPTC
    /\ todo = {}
    /\ i = 1
    /\ objs = <<>>
    /\ calls = <<>>
    /\ err = NoError

\* lines 32-49: merge the paths, create the model builder, collect rset
Start ==
    /\ pc = "start"
    /\ all_pptc' = MergePaths(EmptyPPTC, apps, 1)
    /\ calls' = Append(calls, [op |-> "OptimizationGurobi", topo |-> topo, pptc |-> all_pptc'])
    /\ todo' = rset(apps)
    /\ pc' = "consume"
    /\ UNCHANGED <<apps, inputs, weights, i, objs, err>>

\* line 52 fails: the applications disagree on the owner of r
ConsumeAssertFail ==
    /\ pc = "consume"
    /\ \E r \in todo :
          /\ assertions
          /\ Cardinality(ModeSet(apps, r)) # 1
          /\ err' = [type |-> "AssertionError", args |-> <<>>, line |-> 52]
    /\ pc' = "failed"
    /\ UNCHANGED <<apps, inputs, weights, all_pptc, todo, i, objs, calls>>

\* line 59: the owner of r is neither NODES nor LINKS
ConsumeUnknownMode ==
    /\ pc = "consume"
    /\ \E r \in todo :
          /\ assertions => Cardinality(ModeSet(apps, r)) = 1
          /\ modes(apps, r)[1] \notin {NODES, LINKS}
          /\ err' = UnknownModeError(r, modes(apps, r)[1])
    /\ pc' = "failed"
    /\ UNCHANGED <<apps, inputs, weights, all_pptc, todo, i, objs, calls>>

\* lines 51-60 for one r of rset: one consume request
Consume ==
    /\ pc = "consume"
    /\ \E r \in todo :
          /\ assertions => Cardinality(ModeSet(apps, r)) = 1
          /\ modes(apps, r)[1] \in {NODES, LINKS}
          /\ calls' = Append(calls,
                [op |-> "consume", pptc |-> all_pptc, resource |-> r,
                 cost_funcs |-> cost_funcs(apps, r),
                 capacities |-> Capacities(topo, r, modes(apps, r)[1]),
                 mode |-> modes(apps, r)[1]])
          /\ todo' = todo \ {r}
    /\ UNCHANGED <<apps, inputs, weights, pc, all_pptc, i, objs, err>>

\* lines 63-67: the resource loop is over; look for caps
CapEntry ==
    /\ pc = "consume"
    /\ todo = {}
    /\ IF network_config # None /\ network_config.caps # None
          /\ CapResources(network_config) # {}
       THEN /\ todo' = CapResources(network_config)
            /\ pc' = "cap"
       ELSE /\ todo' = {}
            /\ pc' = "constraints"
    /\ i' = 1
    /\ UNCHANGED <<apps, inputs, weights, all_pptc, objs, calls, err>>

\* line 68 for one r of caps.resources()
Cap ==
    /\ pc = "cap"
    /\ \E r \in todo :
          /\ calls' = Append(calls,
                [op |-> "cap", resource |-> r, caps |-> CapValues(network_config, r),
                 tcs |-> None])
          /\ todo' = todo \ {r}
    /\ pc' = IF todo' = {} THEN "constraints" ELSE "cap"
    /\ UNCHANGED <<apps, inputs, weights, all_pptc, i, objs, err>>

\* variant: the applications are visited last to first
AddNamedConstraints_reversed ==
    /\ pc = "constraints"
    /\ i <= Len(apps)
    /\ calls' = Append(calls, [op |-> "add_named_constraints", app |-> apps[Len(apps) + 1 - i]])
    /\ i' = i + 1
    /\ UNCHANGED <<apps, inputs, weights, pc, all_pptc, todo, objs, err>>

\* line 72 for application i
AddNamedConstraints ==
    /\ pc = "constraints"
    /\ i <= Len(apps)
    /\ calls' = Append(calls, [op |-> "add_named_constraints", app |-> apps[i]])
    /\ i' = i + 1
    /\ UNCHANGED <<apps, inputs, weights, pc, all_pptc, todo, objs, err>>

\* lines 75-77: no weights were given
DeriveWeights ==
    /\ pc = "constraints"
    /\ i > Len(apps)
    /\ weights.kind = "None"
    /\ weights' = DerivedWeights(apps)
    /\ pc' = "objectives"
    /\ i' = 1
    /\ UNCHANGED <<apps, inputs, all_pptc, todo, objs, calls, err>>

\* line 79 passes, or is not executed
CheckWeightsPass ==
    /\ pc = "constraints"
    /\ i > Len(apps)
    /\ weights.kind # "None"
    /\ assertions => "True" \in CompareOutcomes(weights)
    /\ pc' = "objectives"
    /\ i' = 1
    /\ UNCHANGED <<apps, inputs, weights, all_pptc, todo, objs, calls, err>>

\* line 79 fails: the comparison is false, or raises
CheckWeightsFail ==
    /\ pc = "constraints"
    /\ i > Len(apps)
    /\ weights.kind # "None"
    /\ assertions
    /\ \E outcome \in CompareOutcomes(weights) \ {"True"} :
          err' = [type |-> IF outcome = "False" THEN "AssertionError" ELSE outcome,
                  args |-> <<>>, line |-> 79]
    /\ pc' = "failed"
    /\ UNCHANGED <<apps, inputs, weights, all_pptc, todo, i, objs, calls>>

\* lines 84-87 for application i
AddSingleObjective ==
    /\ pc = "objectives"
    /\ i <= Len(apps)
    /\ \E epoch_objs \in EpochObjs :
          /\ calls' = Append(calls,
                [op |-> "add_single_objective", kind |-> apps[i].obj[1],
                 args |-> apps[i].obj[2], kwargs |-> ObjectiveKwargs(apps[i]),
                 returned |-> epoch_objs])
          /\ objs' = Append(objs, epoch_objs)
    /\ apps' = AppsAfterKwargs(apps, i)
    /\ i' = i + 1
    /\ UNCHANGED <<inputs, weights, pc, all_pptc, todo, err>>

\* lines 88-89: compose the objectives and return the model
ComposeObjectives ==
    /\ pc = "objectives"
    /\ i > Len(apps)
    /\ calls' = Append(calls,
          [op |-> "compose_objectives", objs |-> objs, epoch_mode |-> epoch_mode,
           fairness |-> fairness, weights |-> weights])
    /\ pc' = "done"
    /\ UNCHANGED <<apps, inputs, weights, all_pptc, todo, i, objs, err>>

Next ==
    \/ Start
    \/ ConsumeAssertFail
    \/ ConsumeUnknownMode
    \/ Consume
    \/ CapEntry
    \/ Cap
    \/ AddNamedConstraints
    \/ DeriveWeights
    \/ CheckWeightsPass
    \/ CheckWeightsFail
    \/ AddSingleObjective
    \/ ComposeObjectives

Spec == Init /\ [][Next]_vars

(* ------------------------------------------------------------------ *)
(* Shared vocabulary of the properties                                *)
(* ------------------------------------------------------------------ *)

TypeOK ==
    /\ apps \in AppLists
    /\ pc \in {"start", "consume", "cap", "constraints", "objectives", "done", "failed"}
    /\ i \in 1..(Len(apps) + 1)
    /\ (pc = "failed") <=> (err # NoError)

Terminated == pc \in {"done", "failed"}

\* the calls of one operation, in the order they were made
CallsOf(op) == SelectSeq(calls, LAMBDA c : c.op = op)

\* positions of the consume requests for resource r
ConsumeFor(r) == {k \in 1..Len(calls) : calls[k].op = "consume" /\ calls[k].resource = r}

\* positions of the cap requests for resource r
CapFor(r) == {k \in 1..Len(calls) : calls[k].op = "cap" /\ calls[k].resource = r}

\* positions in apps of the applications that reference r
Referencing(r) == {j \in 1..Len(apps) : r \in DOMAIN apps[j].resource_cost}

Referenced == {r \in {"bw", "cpu", "mem"} : Referencing(r) # {}}

\* the ownership domains the applications declare for r
DeclaredModes(r) == {apps[j].resource_cost[r][2] : j \in Referencing(r)}

WellFormed(r) ==
    Cardinality(DeclaredModes(r)) = 1 /\ DeclaredModes(r) \subseteq {NODES, LINKS}

Mismatched(r) == {NODES, LINKS} \subseteq DeclaredModes(r)

UnknownUnanimous(r) ==
    /\ r \in Referenced
    /\ Cardinality(DeclaredModes(r)) = 1
    /\ DeclaredModes(r) \cap {NODES, LINKS} = {}

\* r is the only resource with a defective declaration
OnlyDefect(r) == \A q \in Referenced \ {r} : WellFormed(q)

\* the resource loop of lines 50-60 ran to its end
ConsumptionOver ==
    pc \in {"cap", "constraints", "objectives", "done"} \/ (pc = "failed" /\ err.line = 79)

\* the capping block of lines 63-68 ran to its end
CappingOver ==
    pc \in {"constraints", "objectives", "done"} \/ (pc = "failed" /\ err.line = 79)

Range(f) == {f[k] : k \in DOMAIN f}

(* ------------------------------------------------------------------ *)
(* C1  path union                                                     *)
(* ------------------------------------------------------------------ *)

TrafficClasses == UNION {DOMAIN apps[j].pptc : j \in 1..Len(apps)}

PathsOfClass(t) ==
    UNION {apps[j].pptc[t] : j \in {m \in 1..Len(apps) : t \in DOMAIN apps[m].pptc}}

\* C1: every path set handed to the model builder (at construction and in
\* each consume request) holds, for every traffic class of any application,
\* exactly the union of the paths of all applications having that class, and
\* nothing for other classes; an empty application list gives an empty set.
C1_PathUnion ==
    /\ pc # "start" => (Len(calls) >= 1 /\ calls[1].op = "OptimizationGurobi")
    /\ \A k \in 1..Len(calls) :
          calls[k].op \in {"OptimizationGurobi", "consume"} =>
             /\ DOMAIN calls[k].pptc = TrafficClasses
             /\ \A t \in TrafficClasses : calls[k].pptc[t] = PathsOfClass(t)
             /\ (apps = <<>> => calls[k].pptc = EmptyPPTC)

\* two applications share a class with different paths and the builder got
\* the three distinct paths
C1_Witness ==
    /\ Len(calls) >= 1
    /\ \E j, m \in 1..Len(apps) : \E t \in TrafficClasses :
          /\ j < m
          /\ t \in DOMAIN apps[j].pptc /\ t \in DOMAIN apps[m].pptc
          /\ apps[j].pptc[t] # apps[m].pptc[t]
          /\ ~(apps[j].pptc[t] \subseteq apps[m].pptc[t])
          /\ Cardinality(calls[1].pptc[t]) = 3

(* ------------------------------------------------------------------ *)
(* C2  mismatched ownership domains                                   *)
(* ------------------------------------------------------------------ *)

\* C2: when two applications declare r once NODES and once LINKS (and r is
\* the only defective resource), the call fails with a configuration error
\* naming r, and no consume request for r was submitted.
C2_MismatchIsConfigError ==
    \A r \in Referenced :
       (Mismatched(r) /\ OnlyDefect(r) /\ Terminated) =>
          /\ pc = "failed"
          /\ err.type = "InvalidConfigException"
          /\ r \in Range(err.args)
          /\ ConsumeFor(r) = {}

(* ------------------------------------------------------------------ *)
(* C3  one joint consume request per resource                         *)
(* ------------------------------------------------------------------ *)

\* the position in apps of the n-th application referencing r
NthReferencing(r, n) ==
    CHOOSE j \in Referencing(r) : Cardinality({m \in Referencing(r) : m < j}) = n - 1

\* C3: a consume request is only ever made for a referenced resource, at most
\* once per resource, and carries one cost function per referencing
\* application in input order; once the resource loop has run to its end,
\* every referenced resource with a consistent, recognized domain has exactly
\* one request.
C3_OneJointConsume ==
    /\ \A k \in 1..Len(calls) :
          calls[k].op = "consume" =>
             LET r == calls[k].resource
                 cf == calls[k].cost_funcs
             IN /\ r \in Referenced
                /\ ConsumeFor(r) = {k}
                /\ Len(cf) = Cardinality(Referencing(r))
                /\ \A n \in 1..Len(cf) :
                      cf[n] = apps[NthReferencing(r, n)].resource_cost[r][1]
    /\ ConsumptionOver =>
          \A r \in Referenced : WellFormed(r) => Cardinality(ConsumeFor(r)) = 1

\* a finished run in which two applications share one request, with two
\* different cost functions
C3_Witness ==
    /\ pc = "done"
    /\ \E k \in 1..Len(calls) :
          /\ calls[k].op = "consume"
          /\ Len(calls[k].cost_funcs) = 2
          /\ calls[k].cost_funcs[1] # calls[k].cost_funcs[2]

(* ------------------------------------------------------------------ *)
(* C4  capacity map                                                   *)
(* ------------------------------------------------------------------ *)

Advertising(elements, r) == {e \in elements : r \in DOMAIN topo.resources[e]}

\* C4: in every consume request the capacity map of a NODES resource has as
\* keys exactly the nodes advertising it, that of a LINKS resource exactly the
\* links advertising it, each with the capacity the topology reports.
C4_CapacityMap ==
    \A k \in 1..Len(calls) :
       calls[k].op = "consume" =>
          LET r == calls[k].resource
              cap == calls[k].capacities
              owners == IF calls[k].mode = NODES THEN topo.nodes ELSE topo.links
          IN /\ calls[k].mode \in {NODES, LINKS}
             /\ DOMAIN cap = Advertising(owners, r)
             /\ \A e \in DOMAIN cap : cap[e] = topo.resources[e][r]

\* a request for a NODES resource that some node advertises, some node does
\* not, and some link advertises too
C4_Witness ==
    \E k \in 1..Len(calls) :
       /\ calls[k].op = "consume"
       /\ calls[k].mode = NODES
       /\ DOMAIN calls[k].capacities # {}
       /\ DOMAIN calls[k].capacities # topo.nodes
       /\ Advertising(topo.links, calls[k].resource) # {}

(* ------------------------------------------------------------------ *)
(* C5  unrecognized ownership domain                                  *)
(* ------------------------------------------------------------------ *)

C6_PerWeightValidation ==
    (assertions /\ weights.kind = "vector" /\ Len(weights.vals) = Len(apps) /\ Len(apps) >= 2) =>
       LET allInRange == \A k \in 1..Len(weights.vals) : InUnitRange(weights.vals[k])
       IN /\ allInRange => ~(pc = "failed" /\ err.line = 79)
          /\ (allInRange /\ pc = "done") => calls[Len(calls)].weights = weights
          /\ ~allInRange => pc \notin {"objectives", "done"}

(* ------------------------------------------------------------------ *)
(* C7  derived weights                                                *)
(* ------------------------------------------------------------------ *)

\* sum of a sequence of rationals
RECURSIVE RatSum(_)
RatSum(qs) ==
    IF qs = <<>> THEN <<0, 1>>
    ELSE LET rest == RatSum(Tail(qs))
         IN <<Head(qs)[1] * rest[2] + rest[1] * Head(qs)[2], Head(qs)[2] * rest[2]>>

\* a < b for rationals with positive denominators
RatLess(a, b) == a[1] * b[2] < b[1] * a[2]

\* C7: when the weights were derived and the total volume is positive, the
\* vector given to compose_objectives has one entry per application, entry k
\* being 1 - volume_k / total; each lies in [0,1], a strictly lower volume has
\* a strictly higher weight, the weights sum to (number of applications - 1),
\* and volumes [10, 30] give [3/4, 1/4].
C7_DerivedWeights ==
    \A c \in Range(calls) :
       (c.op = "compose_objectives" /\ c.weights.kind = "ndarray" /\ VolumeSum(apps) > 0) =>
          LET w == c.weights.vals
              total == VolumeSum(apps)
              n == Len(apps)
          IN /\ Len(w) = n
             /\ \A k \in 1..n :
                   /\ w[k][2] > 0
                   /\ w[k][1] * total = (total - apps[k].volume) * w[k][2]
                   /\ InUnitRange(w[k])
             /\ \A j, k \in 1..n :
                   apps[j].volume < apps[k].volume => RatLess(w[k], w[j])
             /\ RatSum(w)[1] = (n - 1) * RatSum(w)[2]
             /\ (n = 2 /\ apps[1].volume = 10 /\ apps[2].volume = 30) =>
                   /\ 4 * w[1][1] = 3 * w[1][2]
                   /\ 4 * w[2][1] = 1 * w[2][2]

\* compose_objectives received the weights derived from volumes [10, 30]
C7_Witness ==
    /\ pc = "done"
    /\ Len(apps) = 2 /\ apps[1].volume = 10 /\ apps[2].volume = 30
    /\ calls[Len(calls)].weights.kind = "ndarray"
    /\ calls[Len(calls)].weights.vals = <<<<30, 40>>, <<10, 40>>>>

(* ------------------------------------------------------------------ *)
(* C8  capping                                                        *)
(* ------------------------------------------------------------------ *)

\* the resources of the caps table, none when there is no configuration or
\* no caps
CapTable ==
    IF network_config = None THEN NoResources
    ELSE IF network_config.caps = None THEN NoResources
    ELSE network_config.caps.table

\* C8: cap requests are only made for resources of the caps table, at most
\* once each, with the table's values and tcs = None (all classes); once the
\* capping block has run there is exactly one per resource of the table, so
\* none without configuration or caps, referenced by an application or not.
C8_CapRequests ==
    /\ \A k \in 1..Len(calls) :
          calls[k].op = "cap" =>
             /\ calls[k].resource \in DOMAIN CapTable
             /\ CapFor(calls[k].resource) = {k}
             /\ calls[k].caps = CapTable[calls[k].resource]
             /\ calls[k].tcs = None
    /\ CappingOver =>
          /\ \A r \in DOMAIN CapTable : Cardinality(CapFor(r)) = 1
          /\ Len(CallsOf("cap")) = Cardinality(DOMAIN CapTable)

\* a finished run that capped a resource no application references
C8_Witness ==
    /\ pc = "done"
    /\ Len(apps) >= 1
    /\ \E r \in DOMAIN CapTable : r \notin Referenced /\ CapFor(r) # {}
    /\ Len(CallsOf("cap")) = 2

(* ------------------------------------------------------------------ *)
(* C9  order of the calls                                             *)
(* ------------------------------------------------------------------ *)

Rank(op) ==
    CASE op = "OptimizationGurobi" -> 0
      [] op = "consume" -> 1
      [] op = "cap" -> 2
      [] op = "add_named_constraints" -> 3
      [] op = "add_single_objective" -> 4
      [] op = "compose_objectives" -> 5

\* C9: the calls on the model builder are always in the order consume, cap,
\* add_named_constraints, add_single_objective, compose_objectives; a returned
\* model has had one add_named_constraints and one add_single_objective per
\* application in input order and exactly one compose_objectives, as its last
\* call; compose_objectives is called in no run that fails.
C9_CallOrder ==
    /\ \A j, k \in 1..Len(calls) : j < k => Rank(calls[j].op) <= Rank(calls[k].op)
    /\ \A n \in 1..Len(CallsOf("add_named_constraints")) :
          n <= Len(apps) /\ CallsOf("add_named_constraints")[n].app = apps[n]
    /\ \A n \in 1..Len(CallsOf("add_single_objective")) :
          /\ n <= Len(apps)
          /\ CallsOf("add_single_objective")[n].kwargs["varname"] = apps[n].name
          /\ CallsOf("add_single_objective")[n].kind = apps[n].obj[1]
    /\ pc = "done" =>
          /\ Len(CallsOf("add_named_constraints")) = Len(apps)
          /\ Len(CallsOf("add_single_objective")) = Len(apps)
          /\ Len(CallsOf("compose_objectives")) = 1
          /\ calls[Len(calls)].op = "compose_objectives"
    /\ pc # "done" => CallsOf("compose_objectives") = <<>>

\* a returned model built from two different applications, with consume and
\* cap requests
C9_Witness ==
    /\ pc = "done"
    /\ Len(apps) = 2 /\ apps[1] # apps[2]
    /\ CallsOf("consume") # <<>>
    /\ CallsOf("cap") # <<>>

(* ------------------------------------------------------------------ *)
(* C10  objective calls                                               *)
(* ------------------------------------------------------------------ *)

C10_Calls ==
    LET oc == CallsOf("add_single_objective")
    IN /\ Len(oc) <= Len(apps)
       /\ pc = "done" => Len(oc) = Len(apps)
       /\ Len(objs) = Len(oc)
       /\ \A n \in 1..Len(oc) :
             LET own == apps[n].obj[3] IN
             /\ oc[n].kind = apps[n].obj[1]
             /\ oc[n].args = apps[n].obj[2]
             /\ DOMAIN oc[n].kwargs = (DOMAIN own) \cup {"varname", "tcs"}
             /\ oc[n].kwargs["varname"] = apps[n].name
             /\ oc[n].kwargs["tcs"] = apps[n].obj_tc
             /\ \A key \in (DOMAIN own) \ {"varname", "tcs"} : oc[n].kwargs[key] = own[key]
             /\ objs[n] = oc[n].returned
       /\ \A c \in Range(calls) : c.op = "compose_objectives" => c.objs = objs

\* C10: add_single_objective is called once per application with its kind,
\* its positional arguments and its keyword options overridden by
\* varname = name and tcs = obj_tc; row n of the matrix given to
\* compose_objectives is the value returned for application n; and no step
\* changes the applications (their own keyword options included).
C10_ObjectiveCalls == [](C10_Calls) /\ [][apps' = apps]_vars

\* a returned model where an application's own options already had varname
\* and tcs, and the two applications got different objective values
C10_Witness ==
    /\ pc = "done"
    /\ Len(apps) = 2
    /\ "varname" \in DOMAIN apps[2].obj[3]
    /\ apps[2].obj[3]["varname"] # apps[2].name
    /\ CallsOf("add_single_objective")[2].kwargs["varname"] = apps[2].name
    /\ objs[1] # objs[2]

====
